---- MODULE Spec2Model ----
(***************************************************************************)
(* Entity-component runtime of radiance (scene/entity.rs): the component   *)
(* store of a CoreEntity, its lifecycle dispatch to an injected callback   *)
(* set, and the propagation of the lifecycle by a scene.                   *)
(***************************************************************************)
EXTENDS Integers, Sequences, FiniteSets, TLC

\* ------------------------------------------------------------------ bounds
\* most components added to one entity
MaxComponents == 3
\* most lifecycle calls (load / update) made by the host on one entity
MaxCalls == 3
\* most entities added to one scene
MaxEntities == 3
\* most NPCs listed in the npc info of one scene block
MaxNpcs == 3

\* ------------------------------------------------------------ value universe
\* std::any::TypeId of the component types used (Health, Mana)
TypeIds == {"Health", "Mana"}
\* payloads of a component (Health{hp:10}, Health{hp:99})
Values == {10, 99}

\* Option<T>, and the outcome of a call that aborts
None == [tag |-> "None"]
Some(x) == [tag |-> "Some", val |-> x]
Panic == [tag |-> "Panic"]
Unit == [tag |-> "Unit"]
is_some(o) == o.tag = "Some"

\* Box::new(component) as Box<dyn Any>: the value with its concrete type
Box(T, v) == [type_id |-> T, value |-> v]
\* component.as_ref().type_id()
type_id_of(c) == c.type_id
\* <dyn Any>::downcast_ref::<T>() / downcast_mut::<T>(): checked downcast
downcast_ref(c, T) == IF type_id_of(c) = T THEN Some(c.value) ELSE None
\* component.and_then(|c| c.downcast_ref())
and_then_downcast_ref(component, T) ==
    IF is_some(component) THEN downcast_ref(component.val, T) ELSE component

\* HashMap::new()
HashMap_new == <<>>
\* HashMap::contains_key
contains_key(m, k) == k \in DOMAIN m
\* HashMap::insert
insert(m, k, v) == [x \in (DOMAIN m) \cup {k} |-> IF x = k THEN v ELSE m[x]]
\* HashMap::get / get_mut: a reference to the entry, if any
get(m, k) == IF contains_key(m, k) THEN Some(m[k]) ELSE None
\* Option::unwrap
unwrap(o) == IF is_some(o) THEN o ELSE Panic

\* ------------------------------------------------------------------- state
VARIABLES
    transform,    \* CoreEntity.transform (a position)
    components,   \* CoreEntity.components: HashMap<TypeId, Vec<Box<dyn Any>>>
    ret,          \* the last operation on the entity and what it returned
    firstAdded,   \* history: per type, the first value ever added
    lastWritten,  \* history: per type, the last value written through a &mut
    callbacks,    \* CoreEntity.callbacks: Rc<RefCell<TCallbacks>>
    holder,       \* the guard another holder of the Rc keeps on the RefCell
    stack,        \* the hook invocations in flight, innermost last
    panicked,     \* a borrow conflict aborted the program
    callLog,      \* history: the lifecycle calls the host made
    hookLog,      \* history: the hook invocations, in order
    entities,     \* CoreScene.entities: the entities a scene owns, in order
    pal4          \* the Pal4Scene built (or the way building it ended)

storeVars == <<components, firstAdded, lastWritten>>
lifeVars == <<callbacks, holder, stack, panicked, callLog, hookLog>>
entityVars == <<transform, components, firstAdded, lastWritten,
                callbacks, holder, stack, pal4>>
vars == <<transform, components, ret, firstAdded, lastWritten,
          callbacks, holder, stack, panicked, callLog, hookLog, entities,
          pal4>>

\* no Pal4Scene built yet
Pal4_none ==
    [status |-> "none", made_by |-> "none", ents |-> <<>>, scene |-> <<>>,
     players |-> <<>>, events |-> <<>>, input |-> <<>>]

\* Transform::new()
Transform_new == 0
\* positions a Transform is moved to
Positions == {0, 1}

\* the callback sets used: one that implements neither hook, one whose
\* on_updating adds dt to a counter, and one that also calls back into its
\* entity's load / update from inside its hooks
Kinds == {"Default", "Counter", "Reentrant"}
\* a callback set as constructed: its private state
Callbacks_new(kind) == [kind |-> kind, counter |-> 0]
\* RefCell::new(value): the value and the borrow flag (0 unused, -1 borrowed
\* mutably, n > 0 borrowed n times shared)
RefCell_new(value) == [borrow |-> 0, value |-> value]
\* seconds per frame handed to update, in units of half a second
\* (1.5 s, 2.5 s, and a negative one)
Deltas == {3, 5, -1}

\* the number of components a store holds
RECURSIVE TotalOver(_, _)
TotalOver(comps, keys) ==
    IF keys = {} THEN 0
    ELSE LET k == CHOOSE x \in keys : TRUE
         IN  Len(comps[k]) + TotalOver(comps, keys \ {k})
Total(comps) == TotalOver(comps, DOMAIN comps)

\* a place in the store: the element a reference points to
Place(k, i) == [key |-> k, idx |-> i]
deref(comps, p) == comps[p.key][p.idx]
\* *reference = value, through a &mut T: the element keeps its type
write(comps, p, w) == [comps EXCEPT ![p.key][p.idx].value = w]

\* ------------------------------------------- Entity for CoreEntity: the store
\* add_component with the key inserted unconditionally (the sequence is reset)
add_component_reset(comps, component) ==
    LET type_id == type_id_of(component)
        c1 == insert(comps, type_id, <<>>)
    IN  [c1 EXCEPT ![type_id] = Append(@, component)]

\* add_component creating an absent sequence in a fresh map
add_component_clobber(comps, component) ==
    LET type_id == type_id_of(component)
        c1 == IF ~contains_key(comps, type_id)
              THEN insert(HashMap_new, type_id, <<>>)
              ELSE comps
    IN  [c1 EXCEPT ![type_id] = Append(@, component)]

\* add_component with v.insert(0, component) for v.push(component)
add_component_front(comps, component) ==
    LET type_id == type_id_of(component)
        c1 == IF ~contains_key(comps, type_id)
              THEN insert(comps, type_id, <<>>)
              ELSE comps
    IN  [c1 EXCEPT ![type_id] = <<component>> \o @]

\* add_component pushing only onto a sequence that already exists
add_component_no_first_push(comps, component) ==
    LET type_id == type_id_of(component)
    IN  IF ~contains_key(comps, type_id)
        THEN insert(comps, type_id, <<>>)
        ELSE [comps EXCEPT ![type_id] = Append(@, component)]

\* add_component keyed by component.type_id(), the identity of the Box
add_component_keyed_by_box(comps, component) ==
    LET type_id == "Box<dyn Any>"
        c1 == IF ~contains_key(comps, type_id)
              THEN insert(comps, type_id, <<>>)
              ELSE comps
    IN  [c1 EXCEPT ![type_id] = Append(@, component)]

\* fn add_component(&mut self, component: Box<dyn Any>)
add_component(comps, component) ==
    LET type_id == type_id_of(component)
        c1 == IF ~contains_key(comps, type_id)
              THEN insert(comps, type_id, <<>>)
              ELSE comps
    IN  [c1 EXCEPT ![type_id] = Append(@, component)]

\* get_component without the contains_key guard before the unwrap
get_component_unguarded(comps, type_id) ==
    LET v == unwrap(get(comps, type_id))
    IN  IF v.tag = "Panic" THEN Panic
        ELSE IF v.val = <<>> THEN None
        ELSE Some(v.val[1])

\* fn get_component(&self, type_id: TypeId) -> Option<&dyn Any>
get_component(comps, type_id) ==
    IF ~contains_key(comps, type_id) THEN None
    ELSE LET v == unwrap(get(comps, type_id))
         IN  IF v.tag = "Panic" THEN Panic
             ELSE IF v.val = <<>> THEN None
             ELSE Some(v.val[1])

\* get_component_mut handing out v.last_mut() for v[0]
get_component_mut_last(comps, type_id) ==
    IF ~contains_key(comps, type_id) THEN None
    ELSE LET v == unwrap(get(comps, type_id))
         IN  IF v.tag = "Panic" THEN Panic
             ELSE IF v.val = <<>> THEN None
             ELSE Some(Place(type_id, Len(v.val)))

\* fn get_component_mut(&mut self, type_id: TypeId) -> Option<&mut dyn Any>:
\* the place of the element the reference points to
get_component_mut(comps, type_id) ==
    IF ~contains_key(comps, type_id) THEN None
    ELSE LET v == unwrap(get(comps, type_id))
         IN  IF v.tag = "Panic" THEN Panic
             ELSE IF v.val = <<>> THEN None
             ELSE Some(Place(type_id, 1))

\* component.and_then(|c| c.downcast_mut()): the place, if its element is a T
and_then_downcast_mut(comps, component, T) ==
    IF is_some(component)
    THEN (IF is_some(downcast_ref(deref(comps, component.val), T))
          THEN component ELSE None)
    ELSE component

\* --------------------------------------------- CoreEntity's generic methods
\* pub fn add_component<T>(&mut self, component: T)
CoreEntity_add_component(comps, T, component) ==
    add_component(comps, Box(T, component))

\* pub fn get_component<T>(&self) -> Option<&T>
CoreEntity_get_component(comps, T) ==
    LET type_id == T
        component == get_component(comps, type_id)
    IN  and_then_downcast_ref(component, T)

\* pub fn get_component_mut<T>(&mut self) -> Option<&mut T>
CoreEntity_get_component_mut(comps, T) ==
    LET type_id == T
        component == get_component_mut(comps, type_id)
    IN  and_then_downcast_mut(comps, component, T)

\* ------------------------------------------- free functions over dyn Entity
\* entity_add_component boxing an already boxed component
entity_add_component_reboxed(comps, T, component) ==
    add_component(comps, Box("Box<T>", component))

\* pub fn entity_add_component<T>(entity: &mut dyn Entity, component: T)
entity_add_component(comps, T, component) ==
    add_component(comps, Box(T, component))

\* pub fn entity_get_component<T>(entity: &dyn Entity) -> Option<&T>
entity_get_component(comps, T) ==
    LET type_id == T
        component == get_component(comps, type_id)
    IN  and_then_downcast_ref(component, T)

\* pub fn entity_get_component_mut<T>(entity: &mut dyn Entity) -> Option<&mut T>
entity_get_component_mut(comps, T) ==
    LET type_id == T
        component == get_component_mut(comps, type_id)
    IN  and_then_downcast_mut(comps, component, T)

\* the two access surfaces
Surfaces == {"CoreEntity", "dyn Entity"}
AddVia(s, comps, T, v) ==
    IF s = "CoreEntity" THEN CoreEntity_add_component(comps, T, v)
    ELSE entity_add_component(comps, T, v)
GetVia(s, comps, T) ==
    IF s = "CoreEntity" THEN CoreEntity_get_component(comps, T)
    ELSE entity_get_component(comps, T)
GetMutVia(s, comps, T) ==
    IF s = "CoreEntity" THEN CoreEntity_get_component_mut(comps, T)
    ELSE entity_get_component_mut(comps, T)

\* what an operation returned
Ret(op, s, T, arg, res) ==
    [op |-> op, surface |-> s, tid |-> T, arg |-> arg, res |-> res]

\* ------------------------------------------------- operations on the store
\* CoreEntity::new(callbacks)
Init ==
    /\ transform = Transform_new
    /\ components = HashMap_new
    /\ ret = Ret("new", "CoreEntity", "Health", 0, Unit)
    /\ firstAdded = [T \in TypeIds |-> None]
    /\ lastWritten = [T \in TypeIds |-> None]
    /\ callbacks = RefCell_new(Callbacks_new("Default"))
    /\ holder = "none"
    /\ stack = <<>>
    /\ panicked = FALSE
    /\ callLog = <<>>
    /\ hookLog = <<>>
    /\ entities = <<>>
    /\ pal4 = Pal4_none

\* a caller adds a component of type T
AddComponent(s, T, v) ==
    /\ Total(components) < MaxComponents
    /\ components' = AddVia(s, components, T, v)
    /\ ret' = Ret("add_component", s, T, v, Unit)
    /\ firstAdded' = IF firstAdded[T] = None
                      THEN [firstAdded EXCEPT ![T] = Some(v)]
                      ELSE firstAdded
    /\ UNCHANGED <<transform, lastWritten>>
    /\ UNCHANGED <<lifeVars, entities, pal4>>

\* a caller asks for the component of type T
GetComponent(s, T) ==
    /\ ret' = Ret("get_component", s, T, 0, GetVia(s, components, T))
    /\ UNCHANGED <<transform, components, firstAdded, lastWritten>>
    /\ UNCHANGED <<lifeVars, entities, pal4>>

\* a caller asks for the component of type T mutably and, given a
\* reference, writes w through it
GetComponentMut(s, T, w) ==
    LET r == GetMutVia(s, components, T)
    IN  /\ ret' = Ret("get_component_mut", s, T, w,
                      IF is_some(r) THEN Some(deref(components, r.val).value)
                      ELSE r)
        /\ components' = IF is_some(r) THEN write(components, r.val, w)
                         ELSE components
        /\ lastWritten' = IF is_some(r)
                          THEN [lastWritten EXCEPT ![T] = Some(w)]
                          ELSE lastWritten
        /\ UNCHANGED <<transform, firstAdded>>
        /\ UNCHANGED <<lifeVars, entities, pal4>>

Next ==
    \/ \E s \in Surfaces, T \in TypeIds, v \in Values : AddComponent(s, T, v)
    \/ \E s \in Surfaces, T \in TypeIds : GetComponent(s, T)
    \/ \E s \in Surfaces, T \in TypeIds, w \in Values : GetComponentMut(s, T, w)

Spec == Init /\ [][Next]_vars

\* ------------------------------------------------ claims: the component store
\* the step just taken was an add_component / a query / a mutable query
IsAdd == ret'.op = "add_component"
IsGet == ret'.op = "get_component"
IsGetMut == ret'.op = "get_component_mut"

\* C1: first-insert-wins. As long as nothing was written through a mutable
\* reference to T, get_component::<T>() returns the first value of type T
\* that was ever added, however many values were added after it.
C1_FirstInsertWins ==
    \A T \in TypeIds :
        (is_some(firstAdded[T]) /\ lastWritten[T] = None)
            => /\ CoreEntity_get_component(components, T) = firstAdded[T]
               /\ (ret.op = "get_component" /\ ret.tid = T)
                      => ret.res = firstAdded[T]

\* Health{hp:10}, a Mana, then Health{hp:99} were added and
\* get_component::<Health>() was asked: it returned hp == 10
C1_Witness ==
    /\ contains_key(components, "Health") /\ contains_key(components, "Mana")
    /\ Len(components["Health"]) = 2
    /\ components["Health"][2].value = 99
    /\ firstAdded["Health"] = Some(10)
    /\ lastWritten["Health"] = None
    /\ ret.op = "get_component" /\ ret.tid = "Health" /\ ret.res = Some(10)

\* C2: type isolation. A step that adds a value of type T leaves what
\* get_component::<U>() and get_component_mut::<U>() return, on either
\* surface, as it was, for every U other than T.
C2_TypeIsolation ==
    [][IsAdd =>
        \A U \in TypeIds \ {ret'.tid} : \A s \in Surfaces :
            /\ GetVia(s, components', U) = GetVia(s, components, U)
            /\ GetMutVia(s, components', U) = GetMutVia(s, components, U)]_vars

\* a Health was added to an entity that already held a Mana
C2_Witness ==
    /\ ret.op = "add_component" /\ ret.tid = "Health"
    /\ contains_key(components, "Mana")
    /\ is_some(CoreEntity_get_component(components, "Mana"))

\* C3: absence. A query or mutable query for a type T of which no value was
\* ever added returns None (it does not abort) and leaves the store as it
\* was, on either surface, whatever was added of other types.
C3_AbsenceCorrectness ==
    [][((IsGet \/ IsGetMut) /\ firstAdded[ret'.tid] = None)
        => /\ ret'.res = None
           /\ components' = components
           /\ \A s \in Surfaces :
                 /\ GetVia(s, components, ret'.tid) = None
                 /\ GetMutVia(s, components, ret'.tid) = None]_vars

\* a mutable query through dyn Entity for Mana returned None on an entity
\* holding two Health components and no Mana
C3_Witness ==
    /\ ret.op = "get_component_mut" /\ ret.surface = "dyn Entity"
    /\ ret.tid = "Mana" /\ ret.res = None
    /\ firstAdded["Mana"] = None
    /\ contains_key(components, "Health") /\ Len(components["Health"]) = 2

\* C4: mutation visibility. After a value was written through
\* get_component_mut::<T>(), get_component::<T>() returns the value last
\* written, and the write changes the first element of T's sequence only.
C4_MutationVisibility ==
    [][/\ \A T \in TypeIds :
            is_some(lastWritten'[T]) => \A s \in Surfaces :
                GetVia(s, components', T) = lastWritten'[T]
       /\ (IsGetMut /\ is_some(ret'.res))
            => /\ components'[ret'.tid][1] = Box(ret'.tid, ret'.arg)
               /\ DOMAIN components' = DOMAIN components
               /\ \A k \in DOMAIN components :
                     /\ Len(components'[k]) = Len(components[k])
                     /\ \A i \in 1..Len(components[k]) :
                           (k # ret'.tid \/ i # 1)
                               => components'[k][i] = components[k][i]
      ]_vars

\* 99 was written over a first Health of 10 that has a later Health beside
\* it, and the next query returned 99
C4_Witness ==
    /\ firstAdded["Health"] = Some(10)
    /\ lastWritten["Health"] = Some(99)
    /\ contains_key(components, "Health") /\ contains_key(components, "Mana")
    /\ Len(components["Health"]) = 2
    /\ components["Health"][2].value = 10
    /\ ret.op = "get_component" /\ ret.tid = "Health" /\ ret.res = Some(99)

\* C9: insertion appends and never fails. A step that adds v: T returns
\* normally, creates T's sequence if absent, keeps the elements of T's
\* sequence in place with v after them, leaves the other sequences alone and
\* grows the store by one; no step removes a key or an element, or changes
\* the type of the element in a slot, and only a write through a mutable
\* reference changes an element's value.
C9_InsertAppends ==
    [][/\ IsAdd
            => /\ ret'.res = Unit
               /\ DOMAIN components' = DOMAIN components \cup {ret'.tid}
               /\ components'[ret'.tid] =
                     Append(IF contains_key(components, ret'.tid)
                            THEN components[ret'.tid] ELSE <<>>,
                            Box(ret'.tid, ret'.arg))
               /\ \A k \in DOMAIN components \ {ret'.tid} :
                     components'[k] = components[k]
               /\ Total(components') = Total(components) + 1
       /\ \A k \in DOMAIN components :
            /\ contains_key(components', k)
            /\ Len(components'[k]) >= Len(components[k])
            /\ \A i \in 1..Len(components[k]) :
                  /\ type_id_of(components'[k][i]) = type_id_of(components[k][i])
                  /\ ~IsGetMut => components'[k][i] = components[k][i]
      ]_vars

\* a second Health was added after the first: both are stored, in order
C9_Witness ==
    /\ ret.op = "add_component" /\ ret.tid = "Health" /\ ret.arg = 99
    /\ contains_key(components, "Health")
    /\ components["Health"] = <<Box("Health", 10), Box("Health", 99)>>
    /\ Total(components) = 3

\* the other access surface
Other(s) == IF s = "CoreEntity" THEN "dyn Entity" ELSE "CoreEntity"

\* C11: the two access surfaces are equivalent. In every state and for every
\* type T and value v, the generic methods of CoreEntity and the free
\* functions over dyn Entity add to the same store and return the same
\* result, and a component just added through one surface is what the other
\* surface retrieves (the first of its type, if nothing was written over it).
C11_SurfacesEquivalent ==
    /\ \A T \in TypeIds :
          /\ CoreEntity_get_component(components, T)
                = entity_get_component(components, T)
          /\ CoreEntity_get_component_mut(components, T)
                = entity_get_component_mut(components, T)
          /\ \A v \in Values :
                CoreEntity_add_component(components, T, v)
                    = entity_add_component(components, T, v)
    /\ (ret.op = "add_component" /\ lastWritten[ret.tid] = None)
          => /\ GetVia(Other(ret.surface), components, ret.tid)
                   = firstAdded[ret.tid]
             /\ is_some(GetMutVia(Other(ret.surface), components, ret.tid))
    /\ ret.op = "get_component"
          => ret.res = GetVia(Other(ret.surface), components, ret.tid)

\* a first Mana was added through the free function to an entity holding a
\* Health: the generic method of CoreEntity retrieves it
C11_Witness ==
    /\ ret.op = "add_component" /\ ret.surface = "dyn Entity"
    /\ ret.tid = "Mana" /\ ret.arg = 99
    /\ contains_key(components, "Health")
    /\ CoreEntity_get_component(components, "Mana") = Some(99)

\* C12: non-empty sequences. In every state every key of the component
\* store maps to a non-empty sequence, so whenever the store contains T's
\* key the lookups for T return its first element, never None.
C12_SequencesNonEmpty ==
    \A k \in DOMAIN components :
        /\ components[k] # <<>>
        /\ get_component(components, k) = Some(components[k][1])
        /\ get_component_mut(components, k) = Some(Place(k, 1))

\* both keys are present, Health's created by the add just made
C12_Witness ==
    /\ DOMAIN components = TypeIds
    /\ ret.op = "add_component" /\ ret.tid = "Health"
    /\ Len(components["Health"]) = 1 /\ Len(components["Mana"]) = 2

\* C13: key/value type consistency. Every value stored under key K has
\* runtime type identity K, so the typed lookup for T, on either surface,
\* returns None exactly when the type-erased lookup for T's identity does,
\* and otherwise the payload of the value the type-erased lookup found.
C13_KeyMatchesType ==
    /\ \A k \in DOMAIN components : \A i \in 1..Len(components[k]) :
          type_id_of(components[k][i]) = k
    /\ Total(components) > 0 => DOMAIN components \subseteq TypeIds
    /\ \A T \in TypeIds : \A s \in Surfaces :
          /\ GetVia(s, components, T) = None
                <=> get_component(components, T) = None
          /\ GetMutVia(s, components, T) = None
                <=> get_component_mut(components, T) = None
          /\ is_some(get_component(components, T))
                => GetVia(s, components, T)
                     = Some(get_component(components, T).val.value)

\* the type-erased lookup for Health finds a value, and the typed lookup
\* through dyn Entity returned its payload; Mana's key holds two values
C13_Witness ==
    /\ is_some(get_component(components, "Health"))
    /\ ret.op = "get_component" /\ ret.surface = "dyn Entity"
    /\ ret.tid = "Health" /\ is_some(ret.res)
    /\ contains_key(components, "Mana") /\ Len(components["Mana"]) = 2

\* ------------------------------------------------------ lifecycle dispatch
\* the running program as the lifecycle code sees it: the entity (self), the
\* hooks in flight and the log of hook invocations
Machine(id, t, comps, cbs, stk, pk, hl) ==
    [id |-> id, transform |-> t, components |-> comps, callbacks |-> cbs,
     stack |-> stk, panicked |-> pk, hookLog |-> hl]
Self == Machine(1, transform, components, callbacks, stack, panicked, hookLog)

\* a hook of the callback set, run on the borrowed callback set with the
\* entity: the default on_loading / on_updating do nothing; the counting
\* on_updating adds dt to the counter
invoke(m, hook, dt) ==
    IF m.callbacks.value.kind # "Default" /\ hook = "on_updating"
    THEN [m EXCEPT !.callbacks.value.counter = @ + dt]
    ELSE m

\* the hook entered, as a frame in flight and an entry of the log
enter(m, hook, dt) ==
    [m EXCEPT !.stack = Append(@, [hook |-> hook, dt |-> dt]),
              !.hookLog = Append(@, [ent |-> m.id, hook |-> hook, dt |-> dt])]

\* callback! invoking the hook without borrowing the RefCell
callback_unchecked(m, hook, dt) ==
    invoke(enter(m, hook, dt), hook, dt)

\* callback!(self, hook, args): borrow the callback set mutably (a borrow
\* conflict aborts) and invoke the hook with the entity and the arguments
callback(m, hook, dt) ==
    IF m.callbacks.borrow # 0
    THEN [m EXCEPT !.panicked = TRUE]
    ELSE invoke(enter([m EXCEPT !.callbacks.borrow = -1], hook, dt), hook, dt)

\* the hook returns: the mutable borrow ends with the call
hook_return(m) ==
    [m EXCEPT !.stack = SubSeq(@, 1, Len(@) - 1), !.callbacks.borrow = 0]

\* load invoking on_updating
load_calls_on_updating(m) == callback(m, "on_updating", 0)

\* load putting the entity back at its initial transform
load_resets_transform(m) ==
    [callback(m, "on_loading", 0) EXCEPT !.transform = Transform_new]

\* fn load(&mut self)
load(m) == callback(m, "on_loading", 0)

\* update handing the hook a delta clamped to be non-negative
update_clamped(m, delta_sec) ==
    callback(m, "on_updating", IF delta_sec < 0 THEN 0 ELSE delta_sec)

\* fn update(&mut self, delta_sec: f32)
update(m, delta_sec) == callback(m, "on_updating", delta_sec)

\* the machine after a step
Commit(m) ==
    /\ transform' = m.transform
    /\ components' = m.components
    /\ callbacks' = m.callbacks
    /\ stack' = m.stack
    /\ panicked' = m.panicked
    /\ hookLog' = m.hookLog

\* who calls into the entity: the host between hooks, or (for the callback
\* set that calls back) a hook in flight
Callers == {"host", "hook"}
MayCall(caller) ==
    /\ ~panicked
    /\ caller = "host" => stack = <<>> /\ Len(callLog) < MaxCalls
    /\ caller = "hook" => Len(stack) = 1 /\ callbacks.value.kind = "Reentrant"
Logged(caller, op, dt) ==
    IF caller = "host" THEN Append(callLog, [op |-> op, dt |-> dt]) ELSE callLog
Outcome(m) == IF m.panicked THEN Panic ELSE Unit

\* entity.load()
Load(caller) ==
    /\ MayCall(caller)
    /\ LET m == load(Self)
       IN  Commit(m) /\ ret' = Ret("load", caller, "none", 0, Outcome(m))
    /\ callLog' = Logged(caller, "load", 0)
    /\ UNCHANGED <<firstAdded, lastWritten, holder, entities, pal4>>

\* entity.update(dt)
Update(caller, dt) ==
    /\ MayCall(caller)
    /\ LET m == update(Self, dt)
       IN  Commit(m) /\ ret' = Ret("update", caller, "none", dt, Outcome(m))
    /\ callLog' = Logged(caller, "update", dt)
    /\ UNCHANGED <<firstAdded, lastWritten, holder, entities, pal4>>

\* the hook in flight returns to load / update, which returns
HookReturn ==
    /\ ~panicked /\ stack # <<>>
    /\ Commit(hook_return(Self))
    /\ ret' = Ret("hook_return", "hook", "none", 0, Unit)
    /\ UNCHANGED <<firstAdded, lastWritten, holder, callLog, entities, pal4>>

\* RefCell::borrow_mut / borrow by another holder of the Rc, at any point of
\* the single thread: a conflict aborts
HolderBorrow(mut) ==
    /\ ~panicked /\ holder = "none"
    /\ LET conflict == IF mut THEN callbacks.borrow # 0 ELSE callbacks.borrow < 0
       IN  /\ panicked' = conflict
           /\ callbacks' = IF conflict THEN callbacks
                            ELSE [callbacks EXCEPT
                                    !.borrow = IF mut THEN -1 ELSE @ + 1]
           /\ holder' = IF conflict THEN holder
                         ELSE IF mut THEN "mut" ELSE "shared"
           /\ ret' = Ret(IF mut THEN "borrow_mut" ELSE "borrow", "holder",
                         "none", 0, IF conflict THEN Panic ELSE Unit)
    /\ UNCHANGED <<transform, storeVars, stack, callLog, hookLog, entities, pal4>>

\* the other holder drops its guard
HolderDrop ==
    /\ ~panicked /\ holder # "none"
    /\ callbacks' = [callbacks EXCEPT
                        !.borrow = IF holder = "mut" THEN 0 ELSE @ - 1]
    /\ holder' = "none"
    /\ ret' = Ret("drop", "holder", "none", 0, Unit)
    /\ UNCHANGED <<transform, storeVars, stack, panicked, callLog, hookLog, entities, pal4>>

\* *entity.transform_mut() = p
SetTransform(p) ==
    /\ ~panicked
    /\ transform' = p
    /\ ret' = Ret("transform_mut", "host", "none", p, Unit)
    /\ UNCHANGED <<storeVars, lifeVars, entities, pal4>>

\* stores an entity may hold when its lifecycle starts
LifeStores ==
    LET one == add_component(HashMap_new, Box("Health", 10))
    IN  {HashMap_new, one, add_component(one, Box("Mana", 99))}

\* CoreEntity::new(callbacks), then the components added
InitLife ==
    /\ transform = Transform_new
    /\ components \in LifeStores
    /\ ret = Ret("new", "CoreEntity", "Health", 0, Unit)
    /\ firstAdded = [T \in TypeIds |->
                        IF contains_key(components, T)
                        THEN Some(components[T][1].value) ELSE None]
    /\ lastWritten = [T \in TypeIds |-> None]
    /\ \E kind \in Kinds : callbacks = RefCell_new(Callbacks_new(kind))
    /\ holder = "none"
    /\ stack = <<>>
    /\ panicked = FALSE
    /\ callLog = <<>>
    /\ hookLog = <<>>
    /\ entities = <<>>
    /\ pal4 = Pal4_none

NextLife ==
    \/ \E caller \in Callers : Load(caller)
    \/ \E caller \in Callers, dt \in Deltas : Update(caller, dt)
    \/ HookReturn
    \/ \E mut \in BOOLEAN : HolderBorrow(mut)
    \/ HolderDrop
    \/ \E p \in Positions : SetTransform(p)

SpecLife == InitLife /\ [][NextLife]_vars

\* ---------------------------------------------------- claims: the lifecycle
\* the sum of the deltas of the update calls of a call log
RECURSIVE SumDt(_)
SumDt(log) ==
    IF log = <<>> THEN 0
    ELSE (IF Head(log).op = "update" THEN Head(log).dt ELSE 0) + SumDt(Tail(log))

\* C6: update dispatch. As long as no call was aborted, the i-th call of the
\* host, when an update(dt), made the i-th hook invocation, an on_updating
\* with exactly that dt, and the counter of a callback set that adds dt is
\* the sum of the deltas of all update calls made so far.
C6_UpdateDispatch ==
    ~panicked =>
        /\ Len(hookLog) = Len(callLog)
        /\ \A i \in 1..Len(callLog) :
              callLog[i].op = "update"
                  => hookLog[i] = [ent |-> 1, hook |-> "on_updating",
                                   dt |-> callLog[i].dt]
        /\ callbacks.value.kind # "Default"
              => callbacks.value.counter = SumDt(callLog)

\* update(1.5) then update(2.5) returned on a counting callback set: the
\* counter is 4.0 (8 half seconds)
C6_Witness ==
    /\ callbacks.value.kind = "Counter"
    /\ callLog = <<[op |-> "update", dt |-> 3], [op |-> "update", dt |-> 5]>>
    /\ stack = <<>> /\ ~panicked
    /\ callbacks.value.counter = 8

\* C7: no-op default. On an entity whose callback set implements neither
\* hook, a load or update call and its return leave the transform, the
\* component store and the callback set's state as they were, and a call
\* made by the host while nobody else borrows the callback set is not
\* aborted: its hook is in flight and returns.
C7_NoOpDefault ==
    [][(callbacks.value.kind = "Default"
            /\ ret'.op \in {"load", "update", "hook_return"})
        => /\ transform' = transform
           /\ components' = components
           /\ callbacks'.value = callbacks.value
           /\ (ret'.op # "hook_return" /\ holder = "none")
                 => ret'.res = Unit /\ ~panicked' /\ Len(stack') = 1]_vars

\* a load and an update have returned on a moved entity with two components
\* and the default callback set
C7_Witness ==
    /\ callbacks.value.kind = "Default"
    /\ transform # Transform_new /\ Total(components) = 2
    /\ \E i, j \in 1..Len(callLog) :
          callLog[i].op = "load" /\ callLog[j].op = "update"
    /\ ret.op = "hook_return" /\ stack = <<>> /\ ~panicked

\* C8: at most one hook invocation is in flight. While a hook is in flight
\* the callback set is mutably borrowed by it alone; a load or update from
\* inside the hook, or a borrow_mut by another holder, aborts at once and
\* leaves the entity, the callback set, the frames in flight and the log of
\* invocations as they were: the hook is never entered nested.
C8_OneHookInFlight ==
    [][/\ Len(stack') <= 1
       /\ stack' # <<>> => callbacks'.borrow = -1 /\ holder' = "none"
       /\ (stack # <<>> /\ ret'.op \in {"load", "update", "borrow_mut"})
            => /\ ret'.res = Panic /\ panicked'
               /\ callbacks' = callbacks /\ holder' = holder
               /\ stack' = stack /\ hookLog' = hookLog
               /\ transform' = transform /\ components' = components
      ]_vars

\* on_loading called update on its own entity: the call aborted with the
\* one hook in flight
C8_Witness ==
    /\ panicked /\ ret.op = "update" /\ ret.surface = "hook" /\ ret.res = Panic
    /\ Len(stack) = 1 /\ stack[1].hook = "on_loading"
    /\ Len(hookLog) = 1

\* C10: load dispatch without a latch. As long as no call was aborted, the
\* hook invocations are, call by call, on_loading for a load and on_updating
\* for an update: every load invokes on_loading once more, whatever calls
\* came before it, and never on_updating.
C10_LoadDispatch ==
    ~panicked =>
        /\ Len(hookLog) = Len(callLog)
        /\ \A i \in 1..Len(callLog) :
              /\ callLog[i].op = "load" <=> hookLog[i].hook = "on_loading"
              /\ callLog[i].op = "update" <=> hookLog[i].hook = "on_updating"

\* update, load, load were called: on_updating, on_loading, on_loading ran
C10_Witness ==
    /\ ~panicked /\ stack = <<>>
    /\ Len(callLog) = 3
    /\ callLog[1].op = "update" /\ callLog[2].op = "load" /\ callLog[3].op = "load"
    /\ Len(hookLog) = 3
    /\ hookLog[2].hook = "on_loading" /\ hookLog[3].hook = "on_loading"

\* ------------------------------------------------------------------ scene
\* CoreEntity::new(callbacks), as the scene holds it
CoreEntity_new(id, kind) ==
    [id |-> id, transform |-> Transform_new, components |-> HashMap_new,
     callbacks |-> RefCell_new(Callbacks_new(kind))]

\* a call of an entity's load / update run to its return
returned(m) == IF m.panicked THEN m ELSE hook_return(m)

\* entity.load() or entity.update(dt), as the scene's pass calls it
entity_call(m, call) ==
    IF call.op = "load" THEN load(m) ELSE update(m, call.dt)

\* the scene's pass over its entities from the i-th on, making the call on
\* each in the collection's order; run is the entities so far, whether the
\* program was aborted, and the log of hook invocations
RECURSIVE for_each_entity(_, _, _)
for_each_entity(run, i, call) ==
    IF i > Len(run.entities) \/ run.panicked THEN run
    ELSE LET e == run.entities[i]
             m == returned(entity_call(Machine(e.id, e.transform, e.components,
                                        e.callbacks, <<>>, run.panicked,
                                        run.hookLog), call))
             e2 == [e EXCEPT !.transform = m.transform,
                             !.components = m.components,
                             !.callbacks = m.callbacks]
         IN  for_each_entity([entities |-> [run.entities EXCEPT ![i] = e2],
                              panicked |-> m.panicked,
                              hookLog |-> m.hookLog], i + 1, call)

\* Scene::add_entity: appends the entity to the collection
add_entity(ents, entity) == Append(ents, entity)

\* Scene::load: load on every owned entity
scene_load(run) == for_each_entity(run, 1, [op |-> "load", dt |-> 0])

\* Scene::update: update(delta_sec) on every owned entity
scene_update(run, delta_sec) ==
    for_each_entity(run, 1, [op |-> "update", dt |-> delta_sec])

TheScene == [entities |-> entities, panicked |-> panicked, hookLog |-> hookLog]
CommitScene(run) ==
    /\ entities' = run.entities
    /\ panicked' = run.panicked
    /\ hookLog' = run.hookLog

\* the callback sets of the entities put in a scene
SceneKinds == {"Default", "Counter"}

\* scene.add_entity(CoreEntity::new(callbacks))
SceneAddEntity(kind) ==
    /\ ~panicked /\ Len(entities) < MaxEntities
    /\ entities' = add_entity(entities, CoreEntity_new(Len(entities) + 1, kind))
    /\ ret' = Ret("add_entity", "host", "none", Len(entities) + 1, Unit)
    /\ UNCHANGED <<entityVars, panicked, callLog, hookLog>>

\* scene.load()
SceneLoad ==
    /\ ~panicked /\ Len(callLog) < MaxCalls
    /\ LET run == scene_load(TheScene)
       IN  /\ CommitScene(run)
           /\ ret' = Ret("scene_load", "host", "none", 0,
                          IF run.panicked THEN Panic ELSE Unit)
    /\ callLog' = Append(callLog, [op |-> "load", dt |-> 0])
    /\ UNCHANGED entityVars

\* scene.update(dt)
SceneUpdate(dt) ==
    /\ ~panicked /\ Len(callLog) < MaxCalls
    /\ LET run == scene_update(TheScene, dt)
       IN  /\ CommitScene(run)
           /\ ret' = Ret("scene_update", "host", "none", dt,
                          IF run.panicked THEN Panic ELSE Unit)
    /\ callLog' = Append(callLog, [op |-> "update", dt |-> dt])
    /\ UNCHANGED entityVars

NextScene ==
    \/ \E kind \in SceneKinds : SceneAddEntity(kind)
    \/ SceneLoad
    \/ \E dt \in Deltas : SceneUpdate(dt)

\* CoreScene::new(): no entity yet
SpecScene == Init /\ [][NextScene]_vars

\* -------------------------------------------------------- claims: the scene
\* the hook invocations one pass over the entities makes: one per entity, in
\* the collection's order, all with the same dt
PassOf(ents, hook, dt) ==
    [i \in 1..Len(ents) |-> [ent |-> ents[i].id, hook |-> hook, dt |-> dt]]

\* C5: lifecycle propagation. A scene-level update(dt) invokes on_updating
\* once per owned entity, in the order the entities were added, each with
\* that dt, and nothing else; a scene-level load does so with on_loading;
\* the entities were added by add_entity, in the order of their ids, and a
\* lifecycle call neither adds nor drops one.
C5_LifecyclePropagation ==
    [][/\ ret'.op = "scene_update"
            => /\ hookLog' = hookLog \o PassOf(entities, "on_updating", ret'.arg)
               /\ ret'.res = Unit
       /\ ret'.op = "scene_load"
            => /\ hookLog' = hookLog \o PassOf(entities, "on_loading", 0)
               /\ ret'.res = Unit
       /\ ret'.op \in {"scene_update", "scene_load"}
            => /\ Len(entities') = Len(entities)
               /\ \A i \in 1..Len(entities) : entities'[i].id = entities[i].id
       /\ \A i \in 1..Len(entities') : entities'[i].id = i
      ]_vars

\* E1, E2, E3 were added in that order, the scene was loaded and then
\* updated with a negative dt: the last three invocations are on_updating on
\* E1, E2, E3 with that dt
C5_Witness ==
    /\ Len(entities) = 3
    /\ ret.op = "scene_update" /\ ret.arg = -1
    /\ hookLog = PassOf(entities, "on_loading", 0)
                    \o <<[ent |-> 1, hook |-> "on_updating", dt |-> -1],
                         [ent |-> 2, hook |-> "on_updating", dt |-> -1],
                         [ent |-> 3, hook |-> "on_updating", dt |-> -1]>>

\* ------------------------------------------------- Pal4Scene (composition)
\* Player::name / Player::actor_name, by player id + 1
NumPlayers == 4
PlayerName(i) ==
    CASE i = 1 -> "YunTianhe" [] i = 2 -> "HanLingsha"
      [] i = 3 -> "LiuMengli" [] OTHER -> "MurongZiying"
PlayerActorName(i) ==
    CASE i = 1 -> "101" [] i = 2 -> "103" [] i = 3 -> "106" [] OTHER -> "105"

\* the component identities involved
IPal4ActorController_uuid == "IPal4ActorController"
IPal4ActorAnimationController_uuid == "IPal4ActorAnimationController"

\* a ComRc<IEntity>: which entity it refers to
Handle(kind, idx) == [kind |-> kind, idx |-> idx]

\* what the asset loader answers during one Pal4Scene::load: whether the
\* scene, its clip and its skybox load, the first player whose actor fails
\* to load (0: none), whether the npc info loads and, per NPC, whether its
\* model name reads and its actor loads, and whether a loaded actor carries
\* an animation controller component
NpcAnswers == [name_ok : BOOLEAN, actor_ok : BOOLEAN]
NpcLists == UNION {[1..n -> NpcAnswers] : n \in 0..MaxNpcs}
Answers ==
    {in \in [scene_ok : BOOLEAN, clip : BOOLEAN, sky : BOOLEAN,
              first_bad_player : 0..NumPlayers, npc_info_ok : BOOLEAN,
              npcs : NpcLists, anim : BOOLEAN] :
        ~in.npc_info_ok => in.npcs = <<>>}

\* CoreEntity::create(name, visible): an entity without components
CoreEntity_create(name, visible) ==
    [name |-> name, actor_name |-> "", visible |-> visible, position |-> 0,
     components |-> {}]

\* asset_loader.load_actor(name, actor_name, default_act), when it succeeds
loaded_actor(in, name, actor_name) ==
    [name |-> name, actor_name |-> actor_name, visible |-> TRUE, position |-> 0,
     components |-> IF in.anim THEN {IPal4ActorAnimationController_uuid} ELSE {}]

\* an event of building the scene
Ev(ev, h, uuid) == [ev |-> ev, h |-> h, uuid |-> uuid]

\* asset_loader.load_scene(scene_name, block_name)?
load_scene(in) ==
    [status |-> IF in.scene_ok THEN "run" ELSE "err", made_by |-> "load",
     ents |-> <<>>, scene |-> <<>>, players |-> <<>>, events |-> <<>>,
     input |-> in]

\* the entity h comes to exist
with_entity(st, h, e) == [st EXCEPT !.ents = @ @@ (h :> e)]

\* scene.add_entity(h)
scene_add_entity(st, h) ==
    [st EXCEPT !.scene = add_entity(@, h),
               !.events = Append(@, Ev("add_entity", h, "-"))]

\* try_load_scene_clip / try_load_scene_sky: add the entity if there is one
add_clip_and_skybox(st, in) ==
    LET clip == Handle("clip", 0)
        skybox == Handle("skybox", 0)
        s1 == IF st.status = "run" /\ in.clip
              THEN scene_add_entity(with_entity(st, clip,
                       CoreEntity_create("clip", TRUE)), clip)
              ELSE st
    IN  IF s1.status = "run" /\ in.sky
        THEN scene_add_entity(with_entity(s1, skybox,
                 CoreEntity_create("skybox", TRUE)), skybox)
        ELSE s1

\* fn load_player(asset_loader, player): load_actor(...).unwrap(), then
\* entity.set_visible(false)
load_player(st, in, i) ==
    IF st.status # "run" THEN st
    ELSE IF in.first_bad_player = i THEN [st EXCEPT !.status = "panic"]
    ELSE LET h == Handle("player", i)
             e == [loaded_actor(in, PlayerName(i), PlayerActorName(i))
                     EXCEPT !.visible = FALSE]
         IN  [with_entity(st, h, e) EXCEPT !.players = Append(@, h)]

\* let players = [load_player(YunTianhe), load_player(HanLingsha),
\*                load_player(LiuMengli), load_player(MurongZiying)]
load_players(st, in) ==
    load_player(load_player(load_player(load_player(st, in, 1), in, 2), in, 3),
                in, 4)

\* players[0].add_component(IPal4ActorController::uuid(), controller)
attach_controller(st) ==
    IF st.status # "run" THEN st
    ELSE LET h == st.players[1]
         IN  [st EXCEPT !.ents[h].components = @ \cup {IPal4ActorController_uuid},
                        !.events = Append(@, Ev("add_component", h,
                                                IPal4ActorController_uuid))]

\* for p in &players { scene.add_entity(p.clone()) }
RECURSIVE add_players(_, _)
add_players(st, i) ==
    IF st.status # "run" \/ i > Len(st.players) THEN st
    ELSE add_players(scene_add_entity(st, st.players[i]), i + 1)

\* asset_loader.load_npc_info(scene_name, block_name)?
load_npc_info(st, in) ==
    IF st.status = "run" /\ ~in.npc_info_ok THEN [st EXCEPT !.status = "err"]
    ELSE st

\* the NPC loop giving up on the first NPC that cannot be loaded
RECURSIVE load_npcs_strict(_, _, _)
load_npcs_strict(st, in, j) ==
    IF st.status # "run" \/ j > Len(in.npcs) THEN st
    ELSE IF in.npcs[j].name_ok /\ in.npcs[j].actor_ok
    THEN LET h == Handle("npc", j)
             e == [loaded_actor(in, "npc", "npc") EXCEPT !.position = j]
         IN  load_npcs_strict(scene_add_entity(with_entity(st, h, e), h), in, j + 1)
    ELSE [st EXCEPT !.status = "err"]

\* for npc in &npc_info.data: an NPC whose model name reads and whose actor
\* loads is placed and added; any other is passed over
RECURSIVE load_npcs(_, _, _)
load_npcs(st, in, j) ==
    IF st.status # "run" \/ j > Len(in.npcs) THEN st
    ELSE IF in.npcs[j].name_ok
    THEN (IF in.npcs[j].actor_ok
          THEN LET h == Handle("npc", j)
                   e == [loaded_actor(in, "npc", "npc") EXCEPT !.position = j]
               IN  load_npcs(scene_add_entity(with_entity(st, h, e), h), in, j + 1)
          ELSE load_npcs(st, in, j + 1))
    ELSE load_npcs(st, in, j + 1)

\* the end of load: Ok(Self { scene, players }), or nothing but the error
finish(st) ==
    IF st.status = "run" THEN [st EXCEPT !.status = "ok"]
    ELSE [st EXCEPT !.ents = <<>>, !.scene = <<>>, !.players = <<>>]

\* load adding the players to the scene before attaching the controller
Pal4Scene_load_controller_late(in) ==
    finish(load_npcs(load_npc_info(
        attach_controller(add_players(
            load_players(add_clip_and_skybox(load_scene(in), in), in), 1)),
        in), in, 1))

\* pub fn load(asset_loader, input, scene_name, block_name) -> Result<Self>
Pal4Scene_load(in) ==
    finish(load_npcs(load_npc_info(
        add_players(attach_controller(
            load_players(add_clip_and_skybox(load_scene(in), in), in)), 1),
        in), in, 1))

\* pub fn new_empty() -> Self
Pal4Scene_new_empty ==
    [status |-> "ok", made_by |-> "new_empty",
     ents |-> [h \in {Handle("player", i) : i \in 1..NumPlayers} |->
                  CoreEntity_create("", FALSE)],
     scene |-> <<>>,
     players |-> [i \in 1..NumPlayers |-> Handle("player", i)],
     events |-> <<>>, input |-> <<>>]

\* entity.get_component(uuid): the component, if the entity carries one
com_get_component(e, uuid) ==
    IF uuid \in e.components THEN Some(uuid) ELSE None

\* pub fn get_player(&self, player_id) -> ComRc<IEntity>
get_player(p4, player_id) == p4.players[player_id + 1]

\* pub fn get_player_controller(&self, player_id): the unwrap of the lookup
get_player_controller(p4, player_id) ==
    unwrap(com_get_component(p4.ents[p4.players[player_id + 1]],
                             IPal4ActorAnimationController_uuid))

\* Pal4Scene::load(...) with the asset loader answering in
Pal4Load(in) ==
    /\ pal4.status = "none"
    /\ pal4' = Pal4Scene_load(in)
    /\ ret' = Ret("Pal4Scene::load", "host", "none", 0,
                  IF pal4'.status = "panic" THEN Panic ELSE Unit)
    /\ panicked' = (pal4'.status = "panic")
    /\ UNCHANGED <<transform, storeVars, callbacks, holder, stack, callLog,
                   hookLog, entities>>

\* Pal4Scene::new_empty()
Pal4NewEmpty ==
    /\ pal4.status = "none"
    /\ pal4' = Pal4Scene_new_empty
    /\ ret' = Ret("Pal4Scene::new_empty", "host", "none", 0, Unit)
    /\ UNCHANGED <<transform, storeVars, lifeVars, entities>>

\* scene.get_player(player_id)
GetPlayer(player_id) ==
    /\ ~panicked /\ pal4.status = "ok"
    /\ ret' = Ret("get_player", "host", "none", player_id,
                  Some(get_player(pal4, player_id).idx))
    /\ UNCHANGED <<transform, storeVars, lifeVars, entities, pal4>>

\* scene.get_player_controller(player_id)
GetPlayerController(player_id) ==
    /\ ~panicked /\ pal4.status = "ok"
    /\ LET r == get_player_controller(pal4, player_id)
       IN  /\ ret' = Ret("get_player_controller", "host", "none", player_id,
                         IF is_some(r) THEN Some(player_id) ELSE r)
           /\ panicked' = ~is_some(r)
    /\ UNCHANGED <<transform, storeVars, callbacks, holder, stack, callLog,
                   hookLog, entities, pal4>>

PlayerIds == 0..NumPlayers - 1

NextPal4 ==
    \/ \E in \in Answers : Pal4Load(in)
    \/ Pal4NewEmpty
    \/ \E player_id \in PlayerIds : GetPlayer(player_id)
    \/ \E player_id \in PlayerIds : GetPlayerController(player_id)

SpecPal4 == Init /\ [][NextPal4]_vars

\* ---------------------------------------------------- claims: Pal4Scene
\* the NPCs of the npc info, from the j-th on, whose model name reads and
\* whose actor loads, in the order of the npc info
RECURSIVE LoadableNpcs(_, _)
LoadableNpcs(npcs, j) ==
    IF j > Len(npcs) THEN <<>>
    ELSE (IF npcs[j].name_ok /\ npcs[j].actor_ok
          THEN <<Handle("npc", j)>> ELSE <<>>) \o LoadableNpcs(npcs, j + 1)

\* the entities handed to add_entity, in the order of the calls
RECURSIVE AddedTo(_)
AddedTo(events) ==
    IF events = <<>> THEN <<>>
    ELSE (IF Head(events).ev = "add_entity" THEN <<Head(events).h>> ELSE <<>>)
         \o AddedTo(Tail(events))

InScene(p4, kind) == \E k \in 1..Len(p4.scene) : p4.scene[k].kind = kind
NoScene(p4) == p4.ents = <<>> /\ p4.scene = <<>> /\ p4.players = <<>>
IsNpc(h) == h.kind = "npc"

\* C14: error policy of Pal4Scene::load. A failing load_scene, or a failing
\* load_npc_info after the players loaded, ends load with an error and no
\* Pal4Scene, and load returns an error for no other reason; when both
\* succeed and the players load, load returns Ok with exactly the NPCs whose
\* model name reads and whose actor loads, in npc info order, and with the
\* clip and the skybox exactly when there is one.
C14_LoadErrorPolicy ==
    pal4.made_by = "load" =>
        LET in == pal4.input
        IN  /\ ~in.scene_ok => pal4.status = "err" /\ NoScene(pal4)
            /\ (in.scene_ok /\ in.first_bad_player = 0 /\ ~in.npc_info_ok)
                  => pal4.status = "err" /\ NoScene(pal4)
            /\ pal4.status = "err" => ~in.scene_ok \/ ~in.npc_info_ok
            /\ (in.scene_ok /\ in.first_bad_player = 0 /\ in.npc_info_ok)
                  => /\ pal4.status = "ok"
                     /\ SelectSeq(pal4.scene, IsNpc) = LoadableNpcs(in.npcs, 1)
                     /\ InScene(pal4, "clip") <=> in.clip
                     /\ InScene(pal4, "skybox") <=> in.sky

\* load returned Ok although there is no clip, the first NPC's model name
\* does not read and the second NPC's actor does not load: the skybox, the
\* players and the third NPC are in the scene
C14_Witness ==
    /\ pal4.made_by = "load" /\ pal4.status = "ok"
    /\ ~pal4.input.clip /\ pal4.input.sky
    /\ Len(pal4.input.npcs) = 3
    /\ ~pal4.input.npcs[1].name_ok
    /\ pal4.input.npcs[2].name_ok /\ ~pal4.input.npcs[2].actor_ok
    /\ SelectSeq(pal4.scene, IsNpc) = <<Handle("npc", 3)>>
    /\ Len(pal4.scene) = 6

\* the scene of a successful load, as the claim lists it
ExpectedScene(in) ==
    (IF in.clip THEN <<Handle("clip", 0)>> ELSE <<>>)
    \o (IF in.sky THEN <<Handle("skybox", 0)>> ELSE <<>>)
    \o [i \in 1..NumPlayers |-> Handle("player", i)]
    \o LoadableNpcs(in.npcs, 1)

\* C15: construction order of Pal4Scene::load. On success the scene holds,
\* each handed to add_entity once and in this order, the clip and the skybox
\* (if loaded), the players YunTianhe, HanLingsha, LiuMengli, MurongZiying,
\* then the loaded NPCs in npc info order; players[i] is the i-th player
\* added; the one add_component is that of the actor controller, on player
\* 0, before any player is added to the scene.
C15_ConstructionOrder ==
    (pal4.made_by = "load" /\ pal4.status = "ok") =>
        /\ pal4.scene = ExpectedScene(pal4.input)
        /\ AddedTo(pal4.events) = pal4.scene
        /\ Len(pal4.players) = NumPlayers
        /\ \A i \in 1..NumPlayers :
              /\ pal4.players[i] = Handle("player", i)
              /\ pal4.ents[pal4.players[i]].name = PlayerName(i)
              /\ IPal4ActorController_uuid \in pal4.ents[pal4.players[i]].components
                    <=> i = 1
        /\ \E k \in 1..Len(pal4.events) :
              /\ pal4.events[k] = Ev("add_component", pal4.players[1],
                                     IPal4ActorController_uuid)
              /\ \A n \in 1..Len(pal4.events) :
                    /\ pal4.events[n].ev = "add_component" => n = k
                    /\ (pal4.events[n].ev = "add_entity"
                          /\ pal4.events[n].h.kind = "player") => n > k

\* a successful load with a clip, a skybox and three NPCs of which the
\* second is passed over: eight entities in the scene
C15_Witness ==
    /\ pal4.made_by = "load" /\ pal4.status = "ok"
    /\ pal4.input.clip /\ pal4.input.sky
    /\ pal4.scene[1].kind = "clip" /\ pal4.scene[2].kind = "skybox"
    /\ pal4.scene[3] = pal4.players[1] /\ pal4.scene[6] = pal4.players[4]
    /\ Len(pal4.scene) = 8
    /\ pal4.scene[7] = Handle("npc", 1) /\ pal4.scene[8] = Handle("npc", 3)

\* C16: an absent component never aborts, also in the composition layer.
\* get_player_controller(player_id), player_id in 0..3, returns normally
\* whether or not the player carries an animation controller component.
C16_AbsentControllerIsNoAbort ==
    ret.op = "get_player_controller" => ret.res # Panic /\ ~panicked

====
